---- MODULE Spec2Model ----
(***************************************************************************)
(* Connection hub and single-flight response orchestrator of               *)
(* src/server.py: ConnectionManager (active_connections, connect,          *)
(* disconnect, broadcast), the asyncio.Lock ai_lock, the coroutine         *)
(* process_ai_response and the handler websocket_endpoint.                 *)
(*                                                                         *)
(* The program runs on one asyncio event loop: a coroutine runs without    *)
(* interruption from one await to the next.  The variable cur names the    *)
(* task that is running between two of its awaits (NoTask when every task  *)
(* is suspended); only that task may take a step.                          *)
(***************************************************************************)
EXTENDS Naturals, Integers, Sequences, FiniteSets, TLC

\* ------------------------------------------------------------------ bounds
\* Spec: connections that may join, triggers that may be submitted.
MaxConns == 2
MaxTriggers == 2
\* OrchSpec and FairSpec: one more trigger behind fewer connections.
OrchConns == 1
OrchTriggers == 3
\* Utterances one engine run may yield before it ends or raises.
MaxYields == 1
\* The specification with a delivery log: triggers and logged broadcasts.
OrderTriggers == 1
MaxEvents == 6

Conns == 1..MaxConns
Trigs == 1..(IF MaxTriggers > OrchTriggers THEN MaxTriggers ELSE OrchTriggers)

WS(c) == <<"ws", c>>
AI(k) == <<"ai", k>>
Tasks == {WS(c) : c \in Conns} \cup {AI(k) : k \in Trigs}
NoTask == <<"none", 0>>

\* ------------------------------------------------------- sequence helpers
Range(s) == {s[i] : i \in 1..Len(s)}

Count(s, x) == Cardinality({i \in 1..Len(s) : s[i] = x})

\* list.remove(x) behind the membership test of disconnect: drops the first x.
Remove(s, x) ==
    IF x \notin Range(s) THEN s
    ELSE LET i == CHOOSE j \in 1..Len(s) : s[j] = x /\ \A m \in 1..(j-1) : s[m] # x
         IN  SubSeq(s, 1, i-1) \o SubSeq(s, i+1, Len(s))

\* ------------------------------------------------------------ text helpers
\* A text is the sequence of its characters, and a character is its code
\* point (ord): 87 65 73 84 is "WAIT", 32 the blank, 10 the line feed.
WAIT == <<87, 65, 73, 84>>

\* The characters str.strip() removes, those str.isspace() holds of:
\* U+0009-U+000D, U+001C-U+0020, U+0085, U+00A0, U+1680, U+2000-U+200A,
\* U+2028, U+2029, U+202F, U+205F and U+3000.
Whitespace ==
    (9..13) \cup (28..32) \cup {133, 160, 5760} \cup (8192..8202)
        \cup {8232, 8233, 8239, 8287, 12288}

IsSpace(ch) == ch \in Whitespace

StartsWith(s, p) == Len(s) >= Len(p) /\ SubSeq(s, 1, Len(p)) = p

\* str.replace(old, ""): scans left to right, dropping each non-overlapping
\* occurrence of old; the result is not scanned again.
RECURSIVE ReplaceWith(_, _)
ReplaceWith(s, old) ==
    IF s = <<>> THEN <<>>
    ELSE IF StartsWith(s, old) THEN ReplaceWith(SubSeq(s, Len(old)+1, Len(s)), old)
    ELSE <<Head(s)>> \o ReplaceWith(Tail(s), old)

RECURSIVE LStrip(_)
LStrip(s) == IF s # <<>> /\ IsSpace(Head(s)) THEN LStrip(Tail(s)) ELSE s

RECURSIVE RStrip(_)
RStrip(s) ==
    IF s # <<>> /\ IsSpace(s[Len(s)]) THEN RStrip(SubSeq(s, 1, Len(s)-1)) ELSE s

\* str.strip()
Strip(s) == LStrip(RStrip(s))

\* display_text of an utterance content
DisplayText(content) == Strip(ReplaceWith(content, WAIT))

\* MUTANT of Displayed: the "if display_text:" test is missing.
Displayed_NoTextCheck(u) ==
    /\ u.source # "user"
    /\ Strip(u.content) # <<>>

\* The test the stream loop applies before it broadcasts an utterance.
Displayed(u) ==
    /\ u.source # "user"
    /\ Strip(u.content) # <<>>
    /\ DisplayText(u.content) # <<>>

\* Utterances the engine may yield: "hi" from the human, "ok WAIT" and
\* "WAIT" from the responders.
Utterances ==
    { [source |-> "user",        content |-> <<104, 105>>],
      [source |-> "Planner",     content |-> <<111, 107, 32>> \o WAIT],
      [source |-> "Facilitator", content |-> WAIT] }

\* Bound on the number of pieces a tested utterance text is made of.
MaxPieces == 3

\* Pieces of utterance text: the sentinel, its two halves "WA" and "IT", a
\* blank, a line feed, the ideographic space U+3000, the word "ok".
TextPieces ==
    { WAIT, <<87, 65>>, <<73, 84>>, <<32>>, <<10>>, <<12288>>, <<111, 107>> }

\* Every concatenation of at most n pieces.
RECURSIVE TextsOf(_)
TextsOf(n) ==
    IF n = 0 THEN { <<>> }
    ELSE LET shorter == TextsOf(n - 1)
         IN  shorter \cup { t \o p : t \in shorter, p \in TextPieces }

\* msg.source of a stream item: the human turn is echoed back as "user".
Sources == { "user", "Planner", "Facilitator" }

\* Stream items with a string content.
StreamItems == [source : Sources, content : TextsOf(MaxPieces)]

\* s contains p as a substring.
Contains(s, p) == \E i \in 1..(Len(s) - Len(p) + 1) : SubSeq(s, i, i + Len(p) - 1) = p

\* The body of the stream loop for one item: the message event it
\* broadcasts, or nothing.
StreamEvent(u) ==
    IF Displayed(u)
    THEN [st |-> "sent", type |-> "message", sender |-> u.source,
          message |-> DisplayText(u.content)]
    ELSE [st |-> "skipped"]

\* ------------------------------------------------------------ inbound data
\* One entry of the "files" list of an inbound message event.
GoodImage == [hasName |-> TRUE,  mime |-> "image/png", data |-> "b64ok"]
BadImage  == [hasName |-> TRUE,  mime |-> "image/jpeg", data |-> "b64bad"]
NoName    == [hasName |-> FALSE, mime |-> "image/png", data |-> "b64ok"]

\* Inbound events: what receive_json returns.  content "none" is a missing
\* content field (data.get gives None), "" an empty and " " a blank one.
InboundEvents ==
    { [type |-> "message", content |-> "text", files |-> <<>>],
      [type |-> "message", content |-> "",     files |-> <<>>],
      [type |-> "message", content |-> " ",    files |-> <<>>],
      [type |-> "message", content |-> "none", files |-> <<>>],
      [type |-> "message", content |-> "text", files |-> <<BadImage>>],
      [type |-> "message", content |-> "text", files |-> <<NoName>>],
      [type |-> "message", content |-> "none", files |-> <<GoodImage>>],
      [type |-> "typing",  content |-> "none", files |-> <<>>],
      [type |-> "other",   content |-> "none", files |-> <<>>] }

\* A content that is missing, or empty once trimmed.
BlankContent(content) == content \in {"none", "", " "}

\* The handler's message branch raises KeyError on a file entry without a name
\* (f["name"]) and TypeError on None += str when content is missing and files
\* is non-empty.
HandlerRaises(ev) ==
    /\ ev.type = "message"
    /\ ev.files # <<>>
    /\ \/ \E i \in 1..Len(ev.files) : ~ev.files[i].hasName
       \/ ev.content = "none"

\* ---------------------------------------------------------- turn building
\* Bound on the length of a tested attachment list.
MaxFiles == 3

\* mime.startswith("image/")
IsImage(mime) == Len(mime) >= Len("image/") /\ SubSeq(mime, 1, Len("image/")) = "image/"

\* "not b64_data or ',' not in b64_data" is false: there is a payload after
\* the comma of the data URL.  "" is also what f.get gives for a missing key.
HasPayload(data) == data \notin {"", "nocomma"}

\* The payload decodes to what the mime type announces.
Decodes(data) == data = "b64ok"

\* Attachment entries, well-formed and malformed.
Attachments ==
    [hasName : BOOLEAN,
     mime    : {"image/png", "image/jpeg", "application/pdf", "text/plain"},
     data    : {"", "nocomma", "b64ok", "b64bad"}]

\* Every list of at most n attachments.
RECURSIVE FileLists(_)
FileLists(n) ==
    IF n = 0 THEN { <<>> }
    ELSE LET shorter == FileLists(n - 1)
         IN  shorter \cup { Append(l, f) : l \in shorter, f \in Attachments }

\* task_content before the loop: the first item is the text, made of user_msg
\* alone; images holds the items after the first.
EmptyContent ==
    [text |-> << [part |-> "user_msg", file |-> 0] >>, images |-> <<>>,
     raised |-> FALSE]

\* The loop "for f in files" from entry i on.  A part names the attachment it
\* comes from by its position in files.
RECURSIVE BuildContent(_, _, _)
BuildContent(files, i, acc) ==
    IF i > Len(files) THEN acc
    ELSE LET f == files[i] IN
         IF ~HasPayload(f.data) THEN BuildContent(files, i + 1, acc)
         ELSE IF IsImage(f.mime)
         THEN IF Decodes(f.data)
              THEN BuildContent(files, i + 1,
                       [acc EXCEPT !.images = Append(@, [part |-> "image", file |-> i])])
              ELSE [acc EXCEPT !.raised = TRUE]
         ELSE IF f.mime = "application/pdf"
         THEN IF Decodes(f.data)
              THEN BuildContent(files, i + 1,
                       [acc EXCEPT !.text = Append(@, [part |-> "pdf", file |-> i])])
              ELSE BuildContent(files, i + 1,
                       [acc EXCEPT !.text = Append(@, [part |-> "pdf_error", file |-> i])])
         ELSE BuildContent(files, i + 1, acc)

\* MUTANT of BuildTask: the test is len(task_content) >= 1.
BuildTask_AlwaysMulti(files) ==
    LET c == BuildContent(files, 1, EmptyContent)
    IN  IF c.raised THEN [st |-> "raised"]
        ELSE [st |-> "built", type |-> "MultiModalMessage",
              text |-> c.text, images |-> c.images]

\* The task handed to team.run_stream, or the exception that leaves the try
\* before the engine is called.
BuildTask(files) ==
    LET c == BuildContent(files, 1, EmptyContent)
    IN  IF c.raised THEN [st |-> "raised"]
        ELSE IF 1 + Len(c.images) > 1
        THEN [st |-> "built", type |-> "MultiModalMessage",
              text |-> c.text, images |-> c.images]
        ELSE [st |-> "built", type |-> "str", text |-> c.text, images |-> <<>>]

\* Attachment processing raises when Image.from_base64 is given a payload
\* that does not decode; that is inside the try of process_ai_response.
AttachRaises(files) == BuildTask(files).st = "raised"

\* -------------------------------------------------------------------- state
VARIABLES
    active_connections, \* manager.active_connections: the list of websockets
    transport,          \* per connection: "open" or "closed" (the peer is gone)
    pc,                 \* per task: the await (or code point) the task is at
    cur,                \* the task running between two awaits, or NoTask
    bcast,              \* per task: the broadcast call in progress
    hfiles,             \* per handler: files of the message being handled
    hcontent,           \* per handler: content of the message being handled
    ai_lock,            \* asyncio.Lock: locked, waiters (FIFO), woken futures
    readyq,             \* event loop: created tasks not yet started, in order
    rfiles,             \* per live run: the files argument
    nyield,             \* per live run: utterances the engine has yielded
    failed,             \* per live run: an exception was raised in the try
    startOrder,         \* runs in the order they entered the lock section
    rlog,               \* per live run: the broadcasts it issued, in order
    typingLog,          \* Planner typing broadcasts issued, in order
    utt,                \* stream loop under test: the item the engine yielded
    sent,               \* stream loop under test: what it broadcast for utt
    tfiles,             \* turn building under test: the files argument
    task,               \* turn building under test: the task built from it
    inbox,              \* per connection: the events sent to it, in order
    events,             \* the broadcasts of the delivery log, in issue order
    evlog               \* delivery log: kept or not, and events still allowed

vars == <<active_connections, transport, pc, cur, bcast, hfiles, hcontent, ai_lock,
          readyq, rfiles, nyield, failed, startOrder, rlog, typingLog,
          utt, sent, tfiles, task, inbox, events, evlog>>

hubVars == <<active_connections, transport>>
runVars == <<ai_lock, readyq, rfiles, nyield, failed, startOrder, rlog, typingLog>>
progVars == <<hubVars, pc, cur, bcast, hfiles, hcontent, runVars>>
streamVars == <<utt, sent>>
turnVars == <<tfiles, task>>
logVars == <<inbox, events, evlog>>

\* The program counters at which a task is inside manager.broadcast.
HandlerBroadcastPcs == {"join", "echo", "typing", "leave"}
RunBroadcastPcs == {"typing_on", "msg", "sysmsg", "typing_off"}
BroadcastPcs == HandlerBroadcastPcs \cup RunBroadcastPcs

\* The lock section of process_ai_response (the Running phase of a run).
RunningPcs == RunBroadcastPcs \cup {"engine"}

NoBroadcast ==
    [st |-> "idle", idx |-> 0, start |-> <<>>, att |-> <<>>, fail |-> {},
     changed |-> FALSE, ev |-> 0]

\* A call of manager.broadcast: the for loop starts at index 0 of the list.
\* start, att and fail record the membership at the call, the delivery
\* attempts made and the connections whose send raised; changed, whether
\* the list was appended to or removed from while the call was suspended.
NewBroadcast(members) ==
    [st |-> "iter", idx |-> 0, start |-> members, att |-> <<>>, fail |-> {},
     changed |-> FALSE, ev |-> 0]

\* The list is mutated by task t, which then starts a broadcast of its own:
\* every broadcast then suspended in a send has seen the list change.
MutateAndBroadcast(t, members) ==
    [u \in Tasks |->
        IF u = t THEN NewBroadcast(members)
        ELSE IF bcast[u].st = "iter" THEN [bcast[u] EXCEPT !.changed = TRUE]
        ELSE bcast[u]]

\* No stream item and no attachment list is under test.
NoUtterance == [source |-> "", content |-> <<>>]
\* No delivery log is kept.
NoLog ==
    /\ inbox = [c \in Conns |-> <<>>]
    /\ events = <<>>
    /\ evlog = [on |-> FALSE, left |-> 0]

PureIdle ==
    /\ utt = NoUtterance
    /\ sent = [st |-> "idle"]
    /\ tfiles = <<>>
    /\ task = [st |-> "idle"]

\* The server after start-up: empty hub, free lock, every handler before its
\* connect, no run.
IdleProgram ==
    /\ active_connections = <<>>
    /\ transport = [c \in Conns |-> "open"]
    /\ pc = [t \in Tasks |-> IF t[1] = "ws" THEN "init" ELSE "none"]
    /\ cur = NoTask
    /\ bcast = [t \in Tasks |-> NoBroadcast]
    /\ hfiles = [c \in Conns |-> <<>>]
    /\ hcontent = [c \in Conns |-> "unbound"]
    /\ ai_lock = [locked |-> FALSE, waiters |-> <<>>, woken |-> {}]
    /\ readyq = <<>>
    /\ rfiles = [k \in Trigs |-> <<>>]
    /\ nyield = [k \in Trigs |-> 0]
    /\ failed = [k \in Trigs |-> FALSE]
    /\ startOrder = <<>>
    /\ rlog = [k \in Trigs |-> <<>>]
    /\ typingLog = <<>>

Init == IdleProgram /\ PureIdle /\ NoLog

\* The program with a delivery log of at most MaxEvents broadcasts, from the
\* moment the first participant has joined and awaits its first event:
\* inputs are taken as long as the broadcasts they lead to fit in the log.
OrderInit ==
    /\ active_connections = <<1>>
    /\ transport = [c \in Conns |-> "open"]
    /\ pc = [t \in Tasks |-> IF t = WS(1) THEN "recv"
                              ELSE IF t[1] = "ws" THEN "init" ELSE "none"]
    /\ cur = NoTask
    /\ bcast = [t \in Tasks |-> NoBroadcast]
    /\ hfiles = [c \in Conns |-> <<>>]
    /\ hcontent = [c \in Conns |-> "unbound"]
    /\ ai_lock = [locked |-> FALSE, waiters |-> <<>>, woken |-> {}]
    /\ readyq = <<>>
    /\ rfiles = [k \in Trigs |-> <<>>]
    /\ nyield = [k \in Trigs |-> 0]
    /\ failed = [k \in Trigs |-> FALSE]
    /\ startOrder = <<>>
    /\ rlog = [k \in Trigs |-> <<>>]
    /\ typingLog = <<>>
    /\ PureIdle
    /\ inbox = [c \in Conns |-> <<>>]
    /\ events = <<>>
    /\ evlog = [on |-> TRUE, left |-> MaxEvents]

\* The same program with fewer participants: the other connections never
\* open.
OrchInit ==
    /\ active_connections = <<>>
    /\ transport = [c \in Conns |-> "open"]
    /\ pc = [t \in Tasks |-> IF t[1] = "ai" THEN "none"
                              ELSE IF t[2] <= OrchConns THEN "init" ELSE "off"]
    /\ cur = NoTask
    /\ bcast = [t \in Tasks |-> NoBroadcast]
    /\ hfiles = [c \in Conns |-> <<>>]
    /\ hcontent = [c \in Conns |-> "unbound"]
    /\ ai_lock = [locked |-> FALSE, waiters |-> <<>>, woken |-> {}]
    /\ readyq = <<>>
    /\ rfiles = [k \in Trigs |-> <<>>]
    /\ nyield = [k \in Trigs |-> 0]
    /\ failed = [k \in Trigs |-> FALSE]
    /\ startOrder = <<>>
    /\ rlog = [k \in Trigs |-> <<>>]
    /\ typingLog = <<>>
    /\ PureIdle
    /\ NoLog

\* send_json raises when the peer's transport is closed.
SendRaises(c) == transport[c] = "closed"

\* Broadcasts one run can issue: typing on, one message per utterance, the
\* System message, typing off.
RunBroadcasts == MaxYields + 3

\* Broadcasts an inbound event can lead to: the echo and a run, or the typing
\* rebroadcast.
BroadcastsOf(ev) ==
    IF ev.type = "message" /\ ~HandlerRaises(ev) THEN 1 + RunBroadcasts
    ELSE IF ev.type = "typing" THEN 1
    ELSE 0

\* With a delivery log, an input is taken only if the n broadcasts it can
\* lead to fit in the log; they are then counted at once.
Admit(n) == evlog.on => evlog.left >= n
Reserve(n) == IF evlog.on THEN [evlog EXCEPT !.left = @ - n] ELSE evlog

\* The logged broadcasts other than t's that have not returned.
InFlight(t) ==
    {bcast[u].ev : u \in {v \in Tasks \ {t} : bcast[v].st = "iter" /\ bcast[v].ev # 0}}

\* The number of the event t's broadcast carries: a new one at the first
\* send of the call.
EventOf(t) == IF bcast[t].idx = 0 THEN Len(events) + 1 ELSE bcast[t].ev

\* The log after t's send to c: the broadcast is entered at its first send,
\* and the event is added to what c has been sent unless the send raised.
LogSend(t, c) ==
    IF evlog.on
    THEN /\ events' = IF bcast[t].idx = 0
                      THEN Append(events, [task |-> t, open |-> InFlight(t)])
                      ELSE events
         /\ inbox' = IF SendRaises(c) THEN inbox
                     ELSE [inbox EXCEPT ![c] = Append(@, EventOf(t))]
    ELSE UNCHANGED <<inbox, events>>

\* A suspended task may be resumed when no task is running; a running task
\* goes on.
CanRun(t) == cur = NoTask \/ cur = t

\* ---------------------------------------------------- ConnectionManager

\* MUTANT of broadcast_send: no try/except around the send, so the first
\* failing send ends the loop.
broadcast_send_AbortOnError(t) ==
    /\ CanRun(t)
    /\ pc[t] \in BroadcastPcs
    /\ bcast[t].st = "iter"
    /\ bcast[t].idx < Len(active_connections)
    /\ LET c == active_connections[bcast[t].idx + 1]
       IN  bcast' = [bcast EXCEPT
                        ![t].idx = IF SendRaises(c) THEN Len(active_connections) ELSE @ + 1,
                        ![t].att = Append(@, c),
                        ![t].fail = IF SendRaises(c) THEN @ \cup {c} ELSE @]
    /\ cur' = NoTask
    /\ UNCHANGED <<streamVars, turnVars, logVars, hubVars, pc, hfiles, hcontent, runVars>>

\* MUTANT of broadcast_send: the send is not awaited in turn, and the frame
\* overtakes the frame sent to the connection just before it.
broadcast_send_Overtake(t) ==
    /\ CanRun(t)
    /\ pc[t] \in BroadcastPcs
    /\ bcast[t].st = "iter"
    /\ bcast[t].idx < Len(active_connections)
    /\ LET c == active_connections[bcast[t].idx + 1]
       IN  /\ bcast' = [bcast EXCEPT
                          ![t].idx = @ + 1,
                          ![t].att = Append(@, c),
                          ![t].fail = IF SendRaises(c) THEN @ \cup {c} ELSE @,
                          ![t].ev = IF evlog.on THEN EventOf(t) ELSE 0]
           /\ events' = IF evlog.on /\ bcast[t].idx = 0
                        THEN Append(events, [task |-> t, open |-> InFlight(t)])
                        ELSE events
           /\ inbox' = IF evlog.on /\ ~SendRaises(c)
                       THEN [inbox EXCEPT ![c] =
                                IF @ = <<>> THEN <<EventOf(t)>>
                                ELSE SubSeq(@, 1, Len(@) - 1) \o <<EventOf(t), @[Len(@)]>>]
                       ELSE inbox
    /\ cur' = NoTask
    /\ UNCHANGED <<streamVars, turnVars, evlog, hubVars, pc, hfiles, hcontent, runVars>>

\* MUTANT of broadcast_send: the frame is put in front of everything sent to
\* the connection so far.
broadcast_send_Unordered(t) ==
    /\ CanRun(t)
    /\ pc[t] \in BroadcastPcs
    /\ bcast[t].st = "iter"
    /\ bcast[t].idx < Len(active_connections)
    /\ LET c == active_connections[bcast[t].idx + 1]
       IN  /\ bcast' = [bcast EXCEPT
                          ![t].idx = @ + 1,
                          ![t].att = Append(@, c),
                          ![t].fail = IF SendRaises(c) THEN @ \cup {c} ELSE @,
                          ![t].ev = IF evlog.on THEN EventOf(t) ELSE 0]
           /\ events' = IF evlog.on /\ bcast[t].idx = 0
                        THEN Append(events, [task |-> t, open |-> InFlight(t)])
                        ELSE events
           /\ inbox' = IF evlog.on /\ ~SendRaises(c)
                       THEN [inbox EXCEPT ![c] = <<EventOf(t)>> \o @]
                       ELSE inbox
    /\ cur' = NoTask
    /\ UNCHANGED <<streamVars, turnVars, evlog, hubVars, pc, hfiles, hcontent, runVars>>

\* One iteration of the for loop of broadcast: the list is read at the
\* current index, the send is awaited (the task suspends), and an exception
\* of the send is swallowed by the bare except.
broadcast_send(t) ==
    /\ CanRun(t)
    /\ pc[t] \in BroadcastPcs
    /\ bcast[t].st = "iter"
    /\ bcast[t].idx < Len(active_connections)
    /\ LET c == active_connections[bcast[t].idx + 1]
       IN  /\ bcast' = [bcast EXCEPT
                          ![t].idx = @ + 1,
                          ![t].att = Append(@, c),
                          ![t].fail = IF SendRaises(c) THEN @ \cup {c} ELSE @,
                          ![t].ev = IF evlog.on THEN EventOf(t) ELSE 0]
           /\ LogSend(t, c)
    /\ cur' = NoTask
    /\ UNCHANGED <<streamVars, turnVars, evlog, hubVars, pc, hfiles, hcontent, runVars>>

\* The for loop finds the list exhausted: broadcast returns to its caller,
\* which runs on without suspending.
broadcast_return(t) ==
    /\ CanRun(t)
    /\ pc[t] \in BroadcastPcs
    /\ bcast[t].st = "iter"
    /\ bcast[t].idx >= Len(active_connections)
    /\ bcast' = [bcast EXCEPT ![t].st = "returned"]
    /\ cur' = t
    /\ UNCHANGED <<streamVars, turnVars, logVars, hubVars, pc, hfiles, hcontent, runVars>>

\* The caller is back from broadcast at program counter p.
Returned(t, p) == cur = t /\ pc[t] = p /\ bcast[t].st = "returned"

\* ------------------------------------------------- websocket_endpoint
\* manager.connect (accept, append) and the start of the join broadcast.
connect(c) ==
    /\ cur = NoTask
    /\ pc[WS(c)] = "init"
    /\ Admit(1)
    /\ evlog' = Reserve(1)
    /\ active_connections' = Append(active_connections, c)
    /\ pc' = [pc EXCEPT ![WS(c)] = "join"]
    /\ bcast' = MutateAndBroadcast(WS(c), active_connections')
    /\ cur' = WS(c)
    /\ UNCHANGED <<streamVars, turnVars, inbox, events, transport, hfiles, hcontent, runVars>>

\* The join broadcast is done: the handler enters its receive loop.
join_done(c) ==
    /\ Returned(WS(c), "join")
    /\ pc' = [pc EXCEPT ![WS(c)] = "recv"]
    /\ bcast' = [bcast EXCEPT ![WS(c)] = NoBroadcast]
    /\ cur' = NoTask
    /\ UNCHANGED <<streamVars, turnVars, logVars, hubVars, hfiles, hcontent, runVars>>

\* Triggers submitted or about to be (a handler in its echo broadcast).
Submitted == {k \in Trigs : pc[AI(k)] # "none"}
PendingEcho == {c \in Conns : pc[WS(c)] = "echo"}

\* receive_json returns ev.  A message is echoed; a typing event is passed
\* on; any other type is ignored; an exception that is no WebSocketDisconnect
\* leaves websocket_endpoint, and the server closes the socket.  The handler
\* does not look at the peer: an event the peer sent before it closed is
\* handled like any other.  cap bounds the triggers of a run of the model.
receive(c, ev, cap) ==
    /\ cur = NoTask
    /\ pc[WS(c)] = "recv"
    /\ ev.type = "message" =>
           Cardinality(Submitted) + Cardinality(PendingEcho) < cap
    /\ Admit(BroadcastsOf(ev))
    /\ evlog' = Reserve(BroadcastsOf(ev))
    /\ IF HandlerRaises(ev)
       THEN /\ pc' = [pc EXCEPT ![WS(c)] = "crashed"]
            /\ transport' = [transport EXCEPT ![c] = "closed"]
            /\ UNCHANGED <<active_connections, cur, bcast, hfiles, hcontent>>
       ELSE IF ev.type = "message"
       THEN /\ pc' = [pc EXCEPT ![WS(c)] = "echo"]
            /\ hfiles' = [hfiles EXCEPT ![c] = ev.files]
            /\ hcontent' = [hcontent EXCEPT ![c] = ev.content]
            /\ bcast' = [bcast EXCEPT ![WS(c)] = NewBroadcast(active_connections)]
            /\ cur' = WS(c)
            /\ UNCHANGED <<active_connections, transport>>
       ELSE IF ev.type = "typing"
       THEN /\ pc' = [pc EXCEPT ![WS(c)] = "typing"]
            /\ bcast' = [bcast EXCEPT ![WS(c)] = NewBroadcast(active_connections)]
            /\ cur' = WS(c)
            /\ UNCHANGED <<active_connections, transport, hfiles, hcontent>>
       ELSE UNCHANGED <<active_connections, transport, pc, cur, bcast, hfiles, hcontent>>
    /\ UNCHANGED <<streamVars, turnVars, inbox, events, runVars>>

\* MUTANT of echo_done: "await process_ai_response(...)" in place of
\* asyncio.create_task: the handler is suspended in the run it has started.
echo_done_Awaited(c) ==
    /\ Returned(WS(c), "echo")
    /\ LET k == Cardinality(Submitted) + 1
       IN  /\ pc' = [pc EXCEPT ![WS(c)] = "awaiting_run", ![AI(k)] = "ready"]
           /\ readyq' = Append(readyq, k)
           /\ rfiles' = [rfiles EXCEPT ![k] = hfiles[c]]
    /\ hfiles' = [hfiles EXCEPT ![c] = <<>>]
    /\ hcontent' = [hcontent EXCEPT ![c] = "unbound"]
    /\ bcast' = [bcast EXCEPT ![WS(c)] = NoBroadcast]
    /\ cur' = NoTask
    /\ UNCHANGED <<streamVars, turnVars, logVars, hubVars, ai_lock, nyield, failed, startOrder, rlog, typingLog>>

\* The echo broadcast is done: asyncio.create_task(process_ai_response(...))
\* schedules a new task, and the loop awaits the next event.
echo_done(c) ==
    /\ Returned(WS(c), "echo")
    /\ LET k == Cardinality(Submitted) + 1
       IN  /\ pc' = [pc EXCEPT ![WS(c)] = "recv", ![AI(k)] = "ready"]
           /\ readyq' = Append(readyq, k)
           /\ rfiles' = [rfiles EXCEPT ![k] = hfiles[c]]
    /\ hfiles' = [hfiles EXCEPT ![c] = <<>>]
    /\ hcontent' = [hcontent EXCEPT ![c] = "unbound"]
    /\ bcast' = [bcast EXCEPT ![WS(c)] = NoBroadcast]
    /\ cur' = NoTask
    /\ UNCHANGED <<streamVars, turnVars, logVars, hubVars, ai_lock, nyield, failed, startOrder, rlog, typingLog>>

\* The typing rebroadcast is done.
typing_done(c) ==
    /\ Returned(WS(c), "typing")
    /\ pc' = [pc EXCEPT ![WS(c)] = "recv"]
    /\ bcast' = [bcast EXCEPT ![WS(c)] = NoBroadcast]
    /\ cur' = NoTask
    /\ UNCHANGED <<streamVars, turnVars, logVars, hubVars, hfiles, hcontent, runVars>>

\* The peer closes its side of the connection.
client_close(c) ==
    /\ cur = NoTask
    /\ pc[WS(c)] \in {"join", "recv", "echo", "typing"}
    /\ transport[c] = "open"
    /\ Admit(1)
    /\ evlog' = Reserve(1)
    /\ transport' = [transport EXCEPT ![c] = "closed"]
    /\ UNCHANGED <<streamVars, turnVars, inbox, events, active_connections, pc, cur, bcast, hfiles, hcontent, runVars>>

\* receive_json raises WebSocketDisconnect: manager.disconnect, then the
\* departure broadcast starts.
receive_disconnect(c) ==
    /\ cur = NoTask
    /\ pc[WS(c)] = "recv"
    /\ transport[c] = "closed"
    /\ active_connections' = Remove(active_connections, c)
    /\ pc' = [pc EXCEPT ![WS(c)] = "leave"]
    /\ bcast' = MutateAndBroadcast(WS(c), active_connections')
    /\ cur' = WS(c)
    /\ UNCHANGED <<streamVars, turnVars, logVars, transport, hfiles, hcontent, runVars>>

\* The departure broadcast is done: the handler returns.
leave_done(c) ==
    /\ Returned(WS(c), "leave")
    /\ pc' = [pc EXCEPT ![WS(c)] = "done"]
    /\ bcast' = [bcast EXCEPT ![WS(c)] = NoBroadcast]
    /\ cur' = NoTask
    /\ UNCHANGED <<streamVars, turnVars, logVars, hubVars, hfiles, hcontent, runVars>>

\* ------------------------------------------------------------ ai_lock
\* MUTANT of LockFree: no lock at all around the body.
LockFree_NoLock == TRUE

\* MUTANT of LockFree: acquire looks at the locked flag alone, so a new task
\* overtakes a waiter that is woken but not yet resumed.
LockFree_Barging == ~ai_lock.locked

\* asyncio.Lock.acquire takes the lock at once only when it is not locked
\* and no waiter is queued; otherwise the caller queues behind the waiters.
LockFree == ~ai_lock.locked /\ ai_lock.waiters = <<>>

\* MUTANT of Release: unlock without waking the first waiter.
Release_NoWake(lock) == [lock EXCEPT !.locked = FALSE]

\* asyncio.Lock.release: unlock and wake the first waiter (its future is
\* set; the waiter takes the lock when the event loop resumes it).
Release(lock) ==
    [lock EXCEPT !.locked = FALSE,
                 !.woken = IF lock.waiters # <<>>
                           THEN @ \cup {Head(lock.waiters)} ELSE @]

\* ------------------------------------------------ process_ai_response
\* The task holds the lock and starts the typing:true broadcast.
EnterRunning(k, lock) ==
    /\ ai_lock' = [lock EXCEPT !.locked = TRUE]
    /\ pc' = [pc EXCEPT ![AI(k)] = "typing_on"]
    /\ bcast' = [bcast EXCEPT ![AI(k)] = NewBroadcast(active_connections)]
    /\ startOrder' = Append(startOrder, k)
    /\ rlog' = [rlog EXCEPT ![k] = Append(@, "typing_on")]
    /\ typingLog' = Append(typingLog, <<k, TRUE>>)
    /\ cur' = AI(k)

\* The event loop starts the oldest created task: async with ai_lock.
start(k) ==
    /\ cur = NoTask
    /\ readyq # <<>>
    /\ k = Head(readyq)
    /\ readyq' = Tail(readyq)
    /\ IF LockFree
       THEN EnterRunning(k, ai_lock)
       ELSE /\ ai_lock' = [ai_lock EXCEPT !.waiters = Append(@, k)]
            /\ pc' = [pc EXCEPT ![AI(k)] = "waiting"]
            /\ UNCHANGED <<cur, bcast, startOrder, rlog, typingLog>>
    /\ UNCHANGED <<streamVars, turnVars, logVars, hubVars, hfiles, hcontent, rfiles, nyield, failed>>

\* A woken waiter resumes inside acquire: it leaves the queue and locks.
acquire_resume(k) ==
    /\ cur = NoTask
    /\ pc[AI(k)] = "waiting"
    /\ k \in ai_lock.woken
    /\ EnterRunning(k, [ai_lock EXCEPT !.waiters = Remove(@, k),
                                       !.woken = @ \ {k}])
    /\ UNCHANGED <<streamVars, turnVars, logVars, hubVars, hfiles, hcontent, readyq, rfiles, nyield, failed>>

\* typing:true is out: the attachments are processed (no await), then the
\* task awaits the first item of team.run_stream, or an exception of the
\* attachment code reaches the except clause, which broadcasts the System
\* message.
typing_on_done(k) ==
    /\ Returned(AI(k), "typing_on")
    /\ IF AttachRaises(rfiles[k])
       THEN /\ pc' = [pc EXCEPT ![AI(k)] = "sysmsg"]
            /\ failed' = [failed EXCEPT ![k] = TRUE]
            /\ bcast' = [bcast EXCEPT ![AI(k)] = NewBroadcast(active_connections)]
            /\ rlog' = [rlog EXCEPT ![k] = Append(@, "system")]
            /\ cur' = AI(k)
       ELSE /\ pc' = [pc EXCEPT ![AI(k)] = "engine"]
            /\ bcast' = [bcast EXCEPT ![AI(k)] = NoBroadcast]
            /\ cur' = NoTask
            /\ UNCHANGED <<failed, rlog>>
    /\ UNCHANGED <<streamVars, turnVars, logVars, hubVars, hfiles, hcontent, ai_lock, readyq, rfiles, nyield,
                   startOrder, typingLog>>

\* team.run_stream yields utterance u: it is broadcast when displayed.
engine_yield(k, u) ==
    /\ cur = NoTask
    /\ pc[AI(k)] = "engine"
    /\ nyield[k] < MaxYields
    /\ nyield' = [nyield EXCEPT ![k] = @ + 1]
    /\ IF Displayed(u)
       THEN /\ pc' = [pc EXCEPT ![AI(k)] = "msg"]
            /\ bcast' = [bcast EXCEPT ![AI(k)] = NewBroadcast(active_connections)]
            /\ rlog' = [rlog EXCEPT ![k] = Append(@, "message")]
            /\ cur' = AI(k)
       ELSE UNCHANGED <<pc, bcast, rlog, cur>>
    /\ UNCHANGED <<streamVars, turnVars, logVars, hubVars, hfiles, hcontent, ai_lock, readyq, rfiles, failed,
                   startOrder, typingLog>>

\* The message broadcast is done: the task awaits the next utterance.
msg_done(k) ==
    /\ Returned(AI(k), "msg")
    /\ pc' = [pc EXCEPT ![AI(k)] = "engine"]
    /\ bcast' = [bcast EXCEPT ![AI(k)] = NoBroadcast]
    /\ cur' = NoTask
    /\ UNCHANGED <<streamVars, turnVars, logVars, hubVars, hfiles, hcontent, runVars>>

\* MUTANT of engine_raise: no except clause; the exception goes through
\* finally and out of the task.
engine_raise_Uncaught(k) ==
    /\ cur = NoTask
    /\ pc[AI(k)] = "engine"
    /\ failed' = [failed EXCEPT ![k] = TRUE]
    /\ pc' = [pc EXCEPT ![AI(k)] = "typing_off"]
    /\ bcast' = [bcast EXCEPT ![AI(k)] = NewBroadcast(active_connections)]
    /\ rlog' = [rlog EXCEPT ![k] = Append(@, "typing_off")]
    /\ typingLog' = Append(typingLog, <<k, FALSE>>)
    /\ cur' = AI(k)
    /\ UNCHANGED <<streamVars, turnVars, logVars, hubVars, hfiles, hcontent, ai_lock, readyq, rfiles, nyield, startOrder>>

\* MUTANT of engine_raise: the try statement encloses "async with ai_lock",
\* so the lock is released before the except clause broadcasts.
engine_raise_Released(k) ==
    /\ cur = NoTask
    /\ pc[AI(k)] = "engine"
    /\ pc' = [pc EXCEPT ![AI(k)] = "sysmsg"]
    /\ failed' = [failed EXCEPT ![k] = TRUE]
    /\ ai_lock' = Release(ai_lock)
    /\ bcast' = [bcast EXCEPT ![AI(k)] = NewBroadcast(active_connections)]
    /\ rlog' = [rlog EXCEPT ![k] = Append(@, "system")]
    /\ cur' = AI(k)
    /\ UNCHANGED <<streamVars, turnVars, logVars, hubVars, hfiles, hcontent, readyq, rfiles, nyield,
                   startOrder, typingLog>>

\* team.run_stream raises: except Exception broadcasts the System message.
engine_raise(k) ==
    /\ cur = NoTask
    /\ pc[AI(k)] = "engine"
    /\ pc' = [pc EXCEPT ![AI(k)] = "sysmsg"]
    /\ failed' = [failed EXCEPT ![k] = TRUE]
    /\ bcast' = [bcast EXCEPT ![AI(k)] = NewBroadcast(active_connections)]
    /\ rlog' = [rlog EXCEPT ![k] = Append(@, "system")]
    /\ cur' = AI(k)
    /\ UNCHANGED <<streamVars, turnVars, logVars, hubVars, hfiles, hcontent, ai_lock, readyq, rfiles, nyield,
                   startOrder, typingLog>>

\* The finally clause: the typing:false broadcast starts.
BeginTypingOff(k) ==
    /\ pc' = [pc EXCEPT ![AI(k)] = "typing_off"]
    /\ bcast' = [bcast EXCEPT ![AI(k)] = NewBroadcast(active_connections)]
    /\ rlog' = [rlog EXCEPT ![k] = Append(@, "typing_off")]
    /\ typingLog' = Append(typingLog, <<k, FALSE>>)
    /\ cur' = AI(k)

\* MUTANT of engine_finish: typing:false is broadcast after the lock section
\* instead of inside it.
engine_finish_Unlocked(k) ==
    /\ cur = NoTask
    /\ pc[AI(k)] = "engine"
    /\ BeginTypingOff(k)
    /\ ai_lock' = Release(ai_lock)
    /\ UNCHANGED <<streamVars, turnVars, logVars, hubVars, hfiles, hcontent, readyq, rfiles, nyield, failed, startOrder>>

\* team.run_stream is exhausted: the try block ends, finally runs.
engine_finish(k) ==
    /\ cur = NoTask
    /\ pc[AI(k)] = "engine"
    /\ BeginTypingOff(k)
    /\ UNCHANGED <<streamVars, turnVars, logVars, hubVars, hfiles, hcontent, ai_lock, readyq, rfiles, nyield, failed,
                   startOrder>>

\* MUTANT of sysmsg_done: typing:false sits at the end of the try block and
\* not in a finally clause, so a failed run ends without it.
sysmsg_done_NoFinally(k) ==
    /\ Returned(AI(k), "sysmsg")
    /\ ai_lock' = Release(ai_lock)
    /\ pc' = [pc EXCEPT ![AI(k)] = "done"]
    /\ bcast' = [bcast EXCEPT ![AI(k)] = NoBroadcast]
    /\ rfiles' = [rfiles EXCEPT ![k] = <<>>]
    /\ nyield' = [nyield EXCEPT ![k] = 0]
    /\ failed' = [failed EXCEPT ![k] = FALSE]
    /\ rlog' = [rlog EXCEPT ![k] = <<>>]
    /\ cur' = NoTask
    /\ UNCHANGED <<streamVars, turnVars, logVars, hubVars, hfiles, hcontent, readyq, startOrder, typingLog>>

\* The System message is out: the except clause ends, finally runs.
sysmsg_done(k) ==
    /\ Returned(AI(k), "sysmsg")
    /\ BeginTypingOff(k)
    /\ UNCHANGED <<streamVars, turnVars, logVars, hubVars, hfiles, hcontent, ai_lock, readyq, rfiles, nyield, failed,
                   startOrder>>

\* typing:false is out: async with releases ai_lock and the task ends; its
\* arguments and locals are gone with it.
typing_off_done(k) ==
    /\ Returned(AI(k), "typing_off")
    /\ ai_lock' = Release(ai_lock)
    /\ pc' = [pc EXCEPT ![AI(k)] = "done"]
    /\ bcast' = [bcast EXCEPT ![AI(k)] = NoBroadcast]
    /\ rfiles' = [rfiles EXCEPT ![k] = <<>>]
    /\ nyield' = [nyield EXCEPT ![k] = 0]
    /\ failed' = [failed EXCEPT ![k] = FALSE]
    /\ rlog' = [rlog EXCEPT ![k] = <<>>]
    /\ cur' = NoTask
    /\ UNCHANGED <<streamVars, turnVars, logVars, hubVars, hfiles, hcontent, readyq, startOrder, typingLog>>

\* ------------------------------------------------------- specification
HandlerStep(c) ==
    \/ connect(c)
    \/ broadcast_send(WS(c))
    \/ broadcast_return(WS(c))
    \/ join_done(c)
    \/ echo_done(c)
    \/ typing_done(c)
    \/ receive_disconnect(c)
    \/ leave_done(c)

RunStep(k) ==
    \/ start(k)
    \/ acquire_resume(k)
    \/ broadcast_send(AI(k))
    \/ broadcast_return(AI(k))
    \/ typing_on_done(k)
    \/ msg_done(k)
    \/ sysmsg_done(k)
    \/ typing_off_done(k)

EngineStep(k) ==
    \/ \E u \in Utterances : engine_yield(k, u)
    \/ engine_raise(k)
    \/ engine_finish(k)

Step(cap) ==
    \/ \E c \in Conns : HandlerStep(c)
    \/ \E c \in Conns : \E ev \in InboundEvents : receive(c, ev, cap)
    \/ \E c \in Conns : client_close(c)
    \/ \E k \in Trigs : RunStep(k)
    \/ \E k \in Trigs : EngineStep(k)

Next == Step(MaxTriggers)

Spec == Init /\ [][Next]_vars

OrchNext == Step(OrchTriggers)

OrchSpec == OrchInit /\ [][OrchNext]_vars

\* The event loop resumes every ready task, the engine answers every await
\* (with an utterance, the end of the stream or an exception), and the
\* peer's disconnect reaches the handler.  Peers are not required to connect
\* or to send.
HandlerProgress(c) ==
    \/ broadcast_send(WS(c))
    \/ broadcast_return(WS(c))
    \/ join_done(c)
    \/ echo_done(c)
    \/ typing_done(c)
    \/ receive_disconnect(c)
    \/ leave_done(c)

FairSpec ==
    /\ OrchSpec
    /\ \A c \in Conns : SF_vars(HandlerProgress(c))
    /\ \A k \in Trigs : SF_vars(RunStep(k))
    /\ \A k \in Trigs : SF_vars(EngineStep(k))

\* The order of delivery does not depend on what an event carries: the
\* inbound events are a well-formed message and a typing event.
OrderEvents ==
    { ev \in InboundEvents :
        \/ ev.type = "typing"
        \/ ev.type = "message" /\ ev.content = "text" /\ ev.files = <<>> }

\* With OrderTriggers = 1 no run ever finds the lock taken, so no run is ever
\* woken from the lock's queue: acquire_resume is left out.
OrderRunStep(k) ==
    \/ start(k)
    \/ broadcast_send(AI(k))
    \/ broadcast_return(AI(k))
    \/ typing_on_done(k)
    \/ msg_done(k)
    \/ sysmsg_done(k)
    \/ typing_off_done(k)

OrderNext ==
    \/ \E c \in Conns : HandlerStep(c)
    \/ \E c \in Conns : \E ev \in OrderEvents : receive(c, ev, OrderTriggers)
    \/ \E c \in Conns : client_close(c)
    \/ \E k \in Trigs : OrderRunStep(k)
    \/ \E k \in Trigs : EngineStep(k)

OrderSpec == OrderInit /\ [][OrderNext]_vars

\* The event loop resumes every ready task and every send completes, but the
\* engine may take for ever to answer.
StallSpec ==
    /\ OrchSpec
    /\ \A c \in Conns : SF_vars(HandlerProgress(c))
    /\ \A k \in Trigs : SF_vars(RunStep(k))

\* ------------------------------------------------ the stream loop alone
\* One pass of the body of "async for msg in team.run_stream(...)" over the
\* item utt.
stream_item ==
    /\ sent.st = "pending"
    /\ sent' = StreamEvent(utt)
    /\ UNCHANGED <<progVars, logVars, utt, turnVars>>

TextInit ==
    /\ IdleProgram
    /\ utt \in StreamItems
    /\ sent = [st |-> "pending"]
    /\ tfiles = <<>>
    /\ task = [st |-> "idle"]
    /\ NoLog

TextNext == stream_item

TextSpec == TextInit /\ [][TextNext]_vars

\* ----------------------------------------------- turn building alone
\* Lines 74-106 of process_ai_response on the attachment list tfiles.
build_task ==
    /\ task.st = "pending"
    /\ task' = BuildTask(tfiles)
    /\ UNCHANGED <<progVars, logVars, streamVars, tfiles>>

TurnInit ==
    /\ IdleProgram
    /\ utt = NoUtterance
    /\ sent = [st |-> "idle"]
    /\ tfiles \in FileLists(MaxFiles)
    /\ task = [st |-> "pending"]
    /\ NoLog

TurnNext == build_task

TurnSpec == TurnInit /\ [][TurnNext]_vars

\* ============================================================== claims
Running == {k \in Trigs : pc[AI(k)] \in RunningPcs}
Queued == {k \in Trigs : pc[AI(k)] \in {"ready", "waiting"}}

\* C1 (single-flight): in every reachable state at most one
\* process_ai_response task is inside the ai_lock section.
C1_SingleFlight == Cardinality(Running) <= 1

\* A run is inside the lock section while another trigger waits for the lock.
C1_Witness ==
    \E k \in Trigs, j \in Trigs : k \in Running /\ pc[AI(j)] = "waiting"

\* C2 (FIFO runs): runs enter the lock section in the order of their
\* create_task calls; triggers are numbered in that order, so the i-th run to
\* enter is trigger i.
C2_FifoRuns == \A i \in 1..Len(startOrder) : startOrder[i] = i

\* The second trigger has entered after the first while a third still waits.
C2_Witness ==
    /\ startOrder = <<1, 2>>
    /\ 2 \in Running
    /\ ai_lock.waiters = <<3>>

\* C3 (no trigger lost or duplicated): every submitted trigger eventually
\* finishes, no trigger enters the lock section twice, and a finished trigger
\* has entered it, so the runs executed are the triggers submitted.
C3_NoTriggerLost ==
    /\ \A k \in Trigs : (pc[AI(k)] # "none") ~> (pc[AI(k)] = "done")
    /\ [](\A k \in Trigs : Count(startOrder, k) <= 1)
    /\ [](\A k \in Trigs :
            pc[AI(k)] \in RunningPcs \cup {"done"} => k \in Range(startOrder))

\* Every trigger of the bound has run and finished, the last of them after
\* the participant that submitted it left.
C3_Witness ==
    /\ \A k \in 1..OrchTriggers : pc[AI(k)] = "done"
    /\ Len(startOrder) = OrchTriggers
    /\ \A c \in 1..OrchConns : pc[WS(c)] = "done"

\* C4 (typing bracket): a run issues typing:true once, before its message
\* broadcasts, and typing:false once, after the last of them (the System
\* message included), and no run ends without both.  In the log of a run in
\* progress typing_on is the first entry and occurs once, and typing_off
\* occurs at most once and only as the last entry.
C4_TypingBracket ==
    \A k \in Trigs :
        LET log == rlog[k] IN
        /\ log # <<>> => log[1] = "typing_on"
        /\ Count(log, "typing_on") <= 1
        /\ Count(log, "typing_off") <= 1
        /\ \A i \in 1..Len(log) : log[i] = "typing_off" => i = Len(log)
        /\ k \in Running => Count(log, "typing_on") = 1
        /\ pc[AI(k)] = "typing_off" => log[Len(log)] = "typing_off"
        /\ pc[AI(k)] \in {"msg", "sysmsg", "engine"} =>
               Count(log, "typing_off") = 0
        /\ pc[AI(k)] = "done" =>
               /\ Count(typingLog, <<k, TRUE>>) = 1
               /\ Count(typingLog, <<k, FALSE>>) = 1

\* A run that broadcast a responder message, then failed, is back from its
\* typing:false broadcast.
C4_Witness ==
    \E k \in Trigs :
        /\ Returned(AI(k), "typing_off")
        /\ rlog[k] = <<"typing_on", "message", "system", "typing_off">>

\* C5 (brackets never overlap): the Planner typing events are issued
\* true, false, true, false, each pair by one run, and a run issues
\* typing:true only after every earlier run's typing:false broadcast is
\* complete and that run has ended.
C5_BracketsDisjoint ==
    /\ \A i \in 1..Len(typingLog) :
          /\ typingLog[i][2] = (i % 2 = 1)
          /\ i % 2 = 0 => typingLog[i][1] = typingLog[i-1][1]
    /\ \A i \in 1..Len(startOrder) : \A j \in 1..Len(startOrder) :
          i < j => pc[AI(startOrder[i])] = "done"

\* The second run has issued its typing:true, after the bracket of the first.
C5_Witness ==
    /\ Len(typingLog) = 3
    /\ typingLog[3] = <<2, TRUE>>
    /\ pc[AI(1)] = "done"

\* C6 (failure recovery): a run whose engine (or attachment code) raised
\* broadcasts the System message before its typing:false, ends, and every
\* trigger queued at that time still enters the lock section.
C6_FailureRecovery ==
    /\ [](\A k \in Trigs :
            failed[k] /\ pc[AI(k)] = "typing_off" => "system" \in Range(rlog[k]))
    /\ \A k \in Trigs : failed[k] ~> (pc[AI(k)] = "done")
    /\ \A k \in Trigs : \A j \in Trigs :
          (failed[k] /\ j \in Queued) ~> (j \in Running)

\* A failed run is back from its last broadcast, the System message out,
\* while another trigger waits for the lock.
C6_Witness ==
    \E k \in Trigs, j \in Trigs :
        /\ failed[k]
        /\ Returned(AI(k), "typing_off")
        /\ "system" \in Range(rlog[k])
        /\ "message" \in Range(rlog[k])
        /\ pc[AI(j)] = "waiting"

\* A broadcast call that has returned to its caller.
BroadcastDone(t) == bcast[t].st = "returned"

\* C7 (broadcast completeness): a broadcast over N registered connections,
\* the membership not changing while it runs, makes exactly one delivery
\* attempt per connection, in list order, whichever sends fail, and returns
\* to its caller.
C7_BroadcastComplete ==
    \A t \in Tasks :
        /\ BroadcastDone(t) /\ ~bcast[t].changed => bcast[t].att = bcast[t].start
        /\ bcast[t].fail \subseteq Range(bcast[t].att)

\* A broadcast over two connections has returned; the send to the first
\* failed and the second was still attempted.
C7_Witness ==
    \E t \in Tasks :
        /\ BroadcastDone(t)
        /\ ~bcast[t].changed
        /\ Len(bcast[t].start) = 2
        /\ bcast[t].fail = {bcast[t].start[1]}
        /\ bcast[t].att = bcast[t].start

\* C8 (snapshot-then-iterate), as claimed: when a broadcast returns, every
\* connection registered at the call and still registered has had exactly
\* one delivery attempt.
C8_SnapshotIterate ==
    \A t \in Tasks :
        BroadcastDone(t) =>
            \A c \in Range(bcast[t].start) :
                c \in Range(active_connections) => Count(bcast[t].att, c) = 1

\* C9 (send failure is an implicit leave), as claimed: when a broadcast
\* returns, no connection whose send failed is still registered.
C9_SendFailureLeaves ==
    \A t \in Tasks :
        BroadcastDone(t) =>
            \A c \in bcast[t].fail : c \notin Range(active_connections)

\* C10 (hub membership matches live connections), as claimed: a registered
\* connection's handler is in its join broadcast or its receive loop.
C10_MembershipLive ==
    \A c \in Conns :
        c \in Range(active_connections) =>
            pc[WS(c)] \in {"join", "recv", "echo", "typing"}

\* C11: the text of a broadcast message event never contains the sentinel
\* WAIT, and stripping it again changes nothing; this includes texts in which
\* removing one occurrence brings the halves of another together (WAWAITIT).
C11_SentinelStripped ==
    sent.st = "sent" =>
        /\ ~Contains(sent.message, WAIT)
        /\ DisplayText(sent.message) = sent.message

\* s is made of nothing but sentinels and blanks.
RECURSIVE OnlySentinels(_)
OnlySentinels(s) ==
    \/ s = <<>>
    \/ IsSpace(Head(s)) /\ OnlySentinels(Tail(s))
    \/ StartsWith(s, WAIT) /\ OnlySentinels(SubSeq(s, Len(WAIT) + 1, Len(s)))

\* C12: the stream loop broadcasts a message event only for an item whose
\* source is not the human and whose text, after the sentinel and the
\* surrounding whitespace are stripped, is not empty; an item whose content
\* is only the sentinel yields no event.
C12_NoEmptyMessage ==
    /\ sent.st = "sent" =>
            /\ utt.source # "user"
            /\ sent.message # <<>>
            /\ ~IsSpace(Head(sent.message))
            /\ ~IsSpace(sent.message[Len(sent.message)])
    /\ (sent.st # "pending" /\ OnlySentinels(utt.content)) => sent.st = "skipped"

\* A responder's item that is the sentinel with a blank around it has been
\* through the loop body.
C12_Witness ==
    /\ utt.source = "Planner"
    /\ utt.content # WAIT
    /\ Contains(utt.content, WAIT)
    /\ OnlySentinels(utt.content)
    /\ sent.st = "skipped"

\* C13: a message event whose content is missing, empty or blank is dropped:
\* the handler neither echoes it nor creates a run for it, and stays in its
\* receive loop.
C13_EmptyDropped ==
    \A c \in Conns :
        BlankContent(hcontent[c]) => pc[WS(c)] # "echo"

\* Parts of a sequence of parts that come from attachment i.
FromFile(parts, i) == {j \in 1..Len(parts) : parts[j].file = i}

\* C14: whatever the attachments, turn building ends without an error and
\* the engine is called with the turn: an attachment without payload, an
\* image that does not decode and an attachment of another mime type add
\* nothing, and a PDF that does not decode adds a failure notice to the text.
C14_AttachBestEffort ==
    task.st # "pending" =>
        /\ task.st = "built"
        /\ \A i \in 1..Len(tfiles) :
               LET f == tfiles[i] IN
               IF HasPayload(f.data) /\ f.mime = "application/pdf" /\ ~Decodes(f.data)
               THEN \E j \in FromFile(task.text, i) : task.text[j].part = "pdf_error"
               ELSE (~HasPayload(f.data) \/ ~Decodes(f.data) \/ f.mime = "text/plain")
                        => FromFile(task.text, i) \cup FromFile(task.images, i) = {}

\* Positions in files of the images that are accepted, and of the PDFs that
\* reach the PDF branch.
AcceptedImages(files) ==
    {i \in 1..Len(files) :
        HasPayload(files[i].data) /\ IsImage(files[i].mime) /\ Decodes(files[i].data)}
PdfsWithPayload(files) ==
    {i \in 1..Len(files) :
        HasPayload(files[i].data) /\ files[i].mime = "application/pdf"}

\* parts come from exactly the attachments in S, one each, in attachment
\* order.
InOrderOf(parts, S) ==
    /\ {parts[j].file : j \in 1..Len(parts)} = S
    /\ \A j, m \in 1..Len(parts) : j < m => parts[j].file < parts[m].file

\* C18: the task handed to the engine is multi-part exactly when at least
\* one image was accepted; its first element is then the accumulated text
\* (the base text followed by one appendix per PDF, in attachment order) and
\* the accepted images follow in attachment order; otherwise the task is
\* the accumulated text alone.
C18_TurnShape ==
    task.st = "built" =>
        /\ (task.type = "MultiModalMessage") <=> (AcceptedImages(tfiles) # {})
        /\ task.type \in {"MultiModalMessage", "str"}
        /\ task.text[1] = [part |-> "user_msg", file |-> 0]
        /\ InOrderOf(Tail(task.text), PdfsWithPayload(tfiles))
        /\ \A j \in 2..Len(task.text) :
               (task.text[j].part = "pdf") <=> Decodes(tfiles[task.text[j].file].data)
        /\ InOrderOf(task.images, AcceptedImages(tfiles))
        /\ \A j \in 1..Len(task.images) : task.images[j].part = "image"

\* A multi-part task was built from a PDF and two images.
C18_Witness ==
    /\ task.st = "built"
    /\ task.type = "MultiModalMessage"
    /\ Len(task.text) = 2
    /\ Len(task.images) = 2

\* C15: on a disconnect the handler broadcasts the departure message while
\* the connection is still registered and drops it afterwards; when the
\* handler has finished the connection is not registered, and when the
\* departure broadcast returns every other registered connection has had a
\* delivery attempt of it.
C15_DisconnectOrder ==
    \A c \in Conns :
        /\ (pc[WS(c)] = "leave" /\ bcast[WS(c)].st = "iter")
               => c \in Range(active_connections)
        /\ pc[WS(c)] = "done" => c \notin Range(active_connections)
        /\ Returned(WS(c), "leave")
               => \A d \in Range(active_connections) \ {c} :
                      d \in Range(bcast[WS(c)].att)

\* A plain message event.
PlainMessage == [type |-> "message", content |-> "text", files |-> <<>>]

\* C16: submitting a message never blocks the receive loop.  Whenever a
\* handler awaits its next event and the event loop is idle, a message is
\* taken, whether or not a run holds the lock or triggers are queued; and a
\* message that has been taken is echoed and queued, the handler being back
\* in its loop, even if no run ever makes progress in the engine.
C16_SubmitNeverBlocks ==
    /\ [](\A c \in Conns :
            ( /\ pc[WS(c)] = "recv"
              /\ transport[c] = "open"
              /\ cur = NoTask
              /\ Cardinality(Submitted) + Cardinality(PendingEcho) < OrchTriggers )
            => ENABLED receive(c, PlainMessage, OrchTriggers))
    /\ \A c \in Conns :
           (pc[WS(c)] = "echo") ~> (pc[WS(c)] = "recv")

\* A run is in the engine, a later trigger waits for the lock behind it, and
\* the handler that submitted both awaits its next event.
C16_Witness ==
    /\ pc[AI(1)] = "engine"
    /\ pc[AI(2)] = "waiting"
    /\ pc[WS(1)] = "recv"

\* C19: a responder's message event and the System failure message of a run
\* are broadcast only while ai_lock is held by the run that issues them: the
\* lock is taken and no other run is between its acquire and its release.
C19_OutputInsideBracket ==
    \A k \in Trigs :
        pc[AI(k)] \in {"msg", "sysmsg"} => ai_lock.locked /\ Running = {k}

\* A run is sending its System failure message while another trigger waits
\* for the lock.
C19_Witness ==
    \E k \in Trigs :
        /\ pc[AI(k)] = "sysmsg"
        /\ bcast[AI(k)].st = "iter"
        /\ bcast[AI(k)].att # <<>>
        /\ \E j \in Trigs : pc[AI(j)] = "waiting"

\* Event i is before event j in what a connection has been sent.
Before(box, i, j) ==
    \E a, b \in 1..Len(box) : a < b /\ box[a] = i /\ box[b] = j

Receives(c, e) == e \in Range(inbox[c])

\* C17: of two broadcasts issued one after the other by the same task (a
\* receive loop or a run), no connection receives the second before the
\* first, whatever the other tasks broadcast meanwhile and whoever joins or
\* leaves: two events of one task that a connection has received, it has
\* received in the order of their issue (events are numbered as issued).
C17_PerTaskOrder ==
    \A c \in Conns : \A a, b \in 1..Len(inbox[c]) :
        LET first == inbox[c][a]
            second == inbox[c][b]
        IN  (a < b /\ events[first].task = events[second].task) => first < second

\* A connection has received two events of a run, and between them an event
\* of a receive loop.
C17_Witness ==
    \E c \in Conns : \E i, m, j \in 1..Len(events) :
        /\ events[i].task = AI(1)
        /\ events[j].task = AI(1)
        /\ events[m].task[1] = "ws"
        /\ Before(inbox[c], i, m)
        /\ Before(inbox[c], m, j)

\* C20: any two broadcast events are received in the same relative order by
\* every connection that receives both, also when different tasks issue them
\* and their sends interleave.
C20_GlobalOrder ==
    \A c, d \in Conns : \A i, j \in 1..Len(events) :
        (Receives(c, i) /\ Receives(c, j) /\ Receives(d, i) /\ Receives(d, j))
            => (Before(inbox[c], i, j) <=> Before(inbox[d], i, j))

\* C20, amended: two broadcast events of which the first had returned from
\* broadcast when the second was issued are received in that order by every
\* connection that receives both, whichever tasks issued them: an event is
\* received after a later-issued one only if its broadcast was still in
\* progress when the later one was issued.
C20_SequentialOrder ==
    \A c \in Conns : \A a, b \in 1..Len(inbox[c]) :
        LET first == inbox[c][a]
            second == inbox[c][b]
        IN  (a < b /\ second < first) => second \in events[first].open

\* Both connections have received one event of a receive loop and then one of
\* a run that was issued after the first had returned.
C20_Witness ==
    \E i, j \in 1..Len(events) :
        /\ events[i].task[1] = "ws"
        /\ events[j].task[1] = "ai"
        /\ i \notin events[j].open
        /\ \A c \in Conns : Before(inbox[c], i, j)

====
